---- MODULE Spec2Model ----
(***************************************************************************)
(* The 3D bot pipeline server (tools/3d-gen/server.py) as a state machine. *)
(*                                                                         *)
(* State: the two module globals holding the model handles, the files of   *)
(* the output directory, the /generate requests suspended at their await,  *)
(* and the response the service sent last.  One action per handler; a      *)
(* handler with an await is split at the await, the only place where the   *)
(* event loop can run another handler.                                     *)
(***************************************************************************)
EXTENDS Integers, Sequences, FiniteSets, TLC

\* ---------------------------------------------------------------- bounds
MaxLoads == 3      \* load attempts of one process that reach the weight download
MaxTokens == 2     \* distinct values of uuid4().hex[:8] the model draws from
MaxReqs == 2       \* /generate requests in flight at once
MaxParts == 2      \* parts of one /merge request
MaxBytes == 2      \* bytes one export or save writes
MaxFaces == 3      \* faces of a reconstructed mesh, and the largest face budget

Tokens == 1..MaxTokens
Reqs == 1..MaxReqs

\* ------------------------------------------------------------ the values
None == 0          \* Python's None, for a model handle

\* What the load path of get_triposg_models can meet.
LoadOutcomes == {"import_error", "download_fail", "rmbg_fail", "pipe_fail", "ok"}

\* Names of files of OUTPUT_DIR: <<stem, number, extension>>.
GenFile_notoken(t) == <<"gen", 1, "glb">>   \* the mutant: a fixed part id
GenFile(t) == <<"gen", t, "glb">>
RefFile(t) == <<"ref", t, "png">>
\* output_name is any string of the caller's: one of its own, or a part id.
OutputNames == {<<"merged_bot", 0>>, <<"gen", 1>>}
\* The output_name of a request that leaves it out.
DefaultName == <<"merged_bot", 0>>
MergeFile(n) == <<n[1], n[2], "glb">>
OutFiles == {GenFile(t) : t \in Tokens} \cup {RefFile(t) : t \in Tokens}
              \cup {MergeFile(n) : n \in OutputNames}

\* No file, for the response of a request that wrote none.
NoFile == <<"", 0, "">>
\* Who wrote a file last: the handler and what it made the name from (the
\* token it drew, or the output_name of the request).
GenOwner(t) == <<"generate", "gen", t>>
RefOwner(t) == <<"search", "ref", t>>
MergeOwner(n) == <<"merge", n[1], n[2]>>
NoOwner == <<"none", "", 0>>
\* The bytes a finished export or save leaves in its file.
Bytes == 1..MaxBytes

\* Paths a request can name, relative to PROJECT_ROOT: the files of OUTPUT_DIR,
\* the root itself ("/" is stripped to "", a directory that always exists) and
\* a path outside OUTPUT_DIR, where the service never writes.
RootDir == <<"", 0, "dir">>
NoSuchPath == <<"nowhere", 0, "glb">>
PartPaths == OutFiles \cup {RootDir, NoSuchPath}

\* How a subprocess.run of the rigging toolchain can end.
RunOutcomes == {"ok", "nonzero", "timeout"}
\* The conversion step: the script may also be absent (it is then not run).
ConvOutcomes == RunOutcomes \cup {"noscript"}
\* How the steps of one /rig request end, in order, up to the first mandatory
\* step that does not end "ok" (no later step is asked for its outcome).
RigEnvs == {<<a>> : a \in RunOutcomes \ {"ok"}}
             \cup {<<"ok", b>> : b \in RunOutcomes \ {"ok"}}
             \cup {<<"ok", "ok", c>> : c \in ConvOutcomes}

\* Names bound at module level in server.py that a handler can call.
ModuleGlobals == {"get_triposg_models", "unload_triposg", "lifespan", "health",
                  "status", "generate_3d", "search_image", "merge_parts",
                  "rig_bot", "serve_generated"}

\* ------------------------------------------------ the script generate_3d.py
\* The parsed command line: --input (left out, a file that opens as an image,
\* or one that does not), --output, --resolution, --test, --gpu-check.
Resolutions == {128, 256, 512}
CliArgs == [input : {"none", "image", "unreadable"},
            output : {"output/test_bot.glb", "other.glb"},
            resolution : Resolutions, test : BOOLEAN, gpu_check : BOOLEAN]
\* How generate_3d_triposr ends: a mesh from the model, the fallback mesh
\* when the tsr module is not installed, or an error it catches and reports.
CliOutcomes == {"triposr", "trimesh_fallback", "error"}
\* No run of the script yet.
NoRun == [ran |-> FALSE, args |-> [input |-> "none", output |-> "output/test_bot.glb",
                                   resolution |-> 256, test |-> FALSE,
                                   gpu_check |-> FALSE],
          device |-> "none", exit |-> 0, generated |-> FALSE, mesh |-> FALSE]

main_exit_checks_first(args, cuda, gen) ==
  \* the mutant: the test for an image comes before the one for --gpu-check
  LET device == IF cuda THEN "cuda" ELSE "cpu"
      stop(code) == [ran |-> TRUE, args |-> args, device |-> device, exit |-> code,
                     generated |-> FALSE, mesh |-> FALSE]
  IN
  IF ~args.test /\ args.input = "none" THEN stop(1)
  ELSE IF args.gpu_check THEN stop(0)
  ELSE IF ~args.test /\ args.input = "unreadable" THEN stop(1)
  ELSE [ran |-> TRUE, args |-> args, device |-> device, exit |-> 0,
        generated |-> TRUE, mesh |-> (gen # "error")]

\* main() of the script, to the exit of the process: status 0 when main
\* returns, 1 at sys.exit(1) and when Image.open raises.  cuda: what check_gpu
\* finds; gen: how generate_3d_triposr ends when it is called.
main_exit(args, cuda, gen) ==
  LET device == IF cuda THEN "cuda" ELSE "cpu"
      stop(code) == [ran |-> TRUE, args |-> args, device |-> device, exit |-> code,
                     generated |-> FALSE, mesh |-> FALSE]
  IN
  IF args.gpu_check THEN stop(0)
  ELSE IF args.test
    THEN [ran |-> TRUE, args |-> args, device |-> device, exit |-> 0,
          generated |-> TRUE, mesh |-> (gen # "error")]
  ELSE IF args.input = "none" THEN stop(1)
  ELSE IF args.input = "unreadable" THEN stop(1)
  ELSE [ran |-> TRUE, args |-> args, device |-> device, exit |-> 0,
        generated |-> TRUE, mesh |-> (gen # "error")]

VARIABLES
  running,        \* the process is up (between lifespan's start and its shutdown)
  triposg_pipe,   \* global triposg_pipe: None or a handle
  rmbg_net,       \* global rmbg_net: None or a handle
  loads,          \* load attempts of this process that reached snapshot_download
  fs,             \* OUTPUT_DIR: file name -> "none" | "glb" | "png" | "junk"
  rigdir,         \* OUTPUT_DIR/rig_<output_name>: "none" | "dir" | "skin" (holds skin.json)
  pcSearch,       \* the /search-image request: "idle" | "downloading" (at await client.get)
  pcGen,          \* per /generate request: "idle" | "reading" (suspended at await file.read())
  held,           \* per /generate request: the local (pipe, rmbg) acquire returned
  gen_called,     \* a /generate call was made in this process
  gen_acquired,   \* a /generate call of this process got the models from acquire
  last,           \* the last response sent (or the shutdown's record)
  fsize,          \* OUTPUT_DIR: file name -> its size in bytes (0: no file, or empty)
  owner,          \* OUTPUT_DIR: file name -> the request that wrote to it last
  cli             \* the last run of the command-line script generate_3d.py

vars == <<running, triposg_pipe, rmbg_net, loads, fs, rigdir, pcSearch, pcGen,
          held, gen_called, gen_acquired, last, fsize, owner, cli>>

NoResp == [op |-> "none", code |-> 0, loaded |-> FALSE, acquired |-> <<None, None>>,
           read_upload |-> FALSE, before |-> <<None, None>>,
           after |-> <<None, None>>, emptied |-> FALSE,
           gen_before |-> FALSE, acquired_before |-> FALSE,
           missing |-> FALSE, bad_first |-> FALSE, parts_loaded |-> 0,
           steps |-> <<>>, env |-> <<>>, skin_json |-> "none",
           name |-> <<"", 0>>, requested |-> 0, parts_count |-> 0,
           file_size |-> 0, written |-> 0,
           wrote |-> NoFile, writer |-> NoOwner, prev_owner |-> NoOwner,
           orig |-> 0, budget |-> 0, reduction |-> "none", faces |-> 0,
           exported |-> FALSE,
           found |-> "none", images |-> 0, message |-> "", downloads |-> 0]

\* ------------------------------------------------------------ the files

Exists(p) == p = RootDir \/ (p \in OutFiles /\ fs[p] # "none")
\* The loop body of merge_parts after the existence check goes through for a
\* part: trimesh.load returns a mesh or scene for a mesh file and raises for
\* a directory, an image or a truncated file.
Loadable(p) == p \in OutFiles /\ fs[p] = "glb"
ExportOutcomes == {"ok", "failed", "partial"}
\* A file after an export to it: written, untouched, or truncated.
Exported(old, export) ==
  CASE export = "ok" -> "glb" [] export = "failed" -> old [] OTHER -> "junk"

\* The size of a file after an export asked to write bytes to it: all of
\* them, none (the file is as it was), or a truncated part.
Written(old, export, bytes) ==
  CASE export = "ok" -> bytes [] export = "failed" -> old [] OTHER -> bytes - 1
\* The request the file belongs to after writer's export.
WrittenBy(old, export, writer) == IF export = "failed" THEN old ELSE writer

\* ------------------------------------------------------- the model loader

\* get_triposg_models past its cache check: the try block and its handlers.
\* n is the number of load attempts so far; a fresh handle is numbered n + 1.
load_models_local(pipe, rmbg, n, outcome) ==
  \* the mutant: without the global statement the handles stay local
  [pipe  |-> pipe,
   rmbg  |-> rmbg,
   ret   |-> IF outcome = "ok" THEN <<n + 1, n + 1>> ELSE <<None, None>>,
   loads |-> IF outcome = "import_error" THEN n ELSE n + 1]

load_models(pipe, rmbg, n, outcome) ==
  [pipe  |-> IF outcome = "ok" THEN n + 1 ELSE pipe,
   rmbg  |-> IF outcome \in {"pipe_fail", "ok"} THEN n + 1 ELSE rmbg,
   ret   |-> IF outcome = "ok" THEN <<n + 1, n + 1>> ELSE <<None, None>>,
   loads |-> IF outcome = "import_error" THEN n ELSE n + 1]

get_triposg_models_nocache(pipe, rmbg, n, outcome) ==
  \* the mutant: no cache check, every call loads
  load_models(pipe, rmbg, n, outcome)

get_triposg_models(pipe, rmbg, n, outcome) ==
  IF pipe # None
    THEN [pipe |-> pipe, rmbg |-> rmbg, ret |-> <<pipe, rmbg>>, loads |-> n]
    ELSE load_models(pipe, rmbg, n, outcome)

unload_triposg_pipe_only(pipe, rmbg) ==
  \* the mutant: the guard looks at the pipeline alone
  IF pipe # None
    THEN [pipe |-> None, rmbg |-> None, emptied |-> TRUE]
    ELSE [pipe |-> pipe, rmbg |-> rmbg, emptied |-> FALSE]

unload_triposg(pipe, rmbg) ==
  IF pipe # None \/ rmbg # None
    THEN [pipe |-> None, rmbg |-> None, emptied |-> TRUE]
    ELSE [pipe |-> pipe, rmbg |-> rmbg, emptied |-> FALSE]

\* ------------------------------------------------------------------ Init

Init ==
  /\ running = TRUE
  /\ triposg_pipe = None
  /\ rmbg_net = None
  /\ loads = 0
  /\ fs = [f \in OutFiles |-> "none"]
  /\ rigdir = [n \in OutputNames |-> "none"]
  /\ pcSearch = "idle"
  /\ pcGen = [r \in Reqs |-> "idle"]
  /\ held = [r \in Reqs |-> <<None, None>>]
  /\ gen_called = FALSE
  /\ gen_acquired = FALSE
  /\ last = NoResp
  /\ fsize = [f \in OutFiles |-> 0]
  /\ owner = [f \in OutFiles |-> NoOwner]
  /\ cli = NoRun

\* ---------------------------------------------------------------- /status

\* GET /status: the model-loaded flag of the payload.
status ==
  /\ running
  /\ last' = [NoResp EXCEPT !.op = "status", !.code = 200,
                            !.loaded = (triposg_pipe # None),
                            !.gen_before = gen_called,
                            !.acquired_before = gen_acquired]
  /\ UNCHANGED <<running, triposg_pipe, rmbg_net, loads, fs, rigdir, pcSearch,
                 pcGen, held, gen_called, gen_acquired>>
  /\ UNCHANGED <<fsize, owner, cli>>

\* -------------------------------------------------------------- /generate

\* The request takes the lowest free slot.
FreeSlot(r) == pcGen[r] = "idle" /\ \A q \in Reqs : q < r => pcGen[q] # "idle"

\* After acquire: the handler answers 503 when pipe is None, else goes on to
\* await file.read().
generate_gate_nocheck(ret) == "reading"   \* the mutant: no test of pipe

generate_gate(ret) == IF ret[1] = None THEN "503" ELSE "reading"

\* POST /generate up to its first suspension point.
generate_3d_begin(r, outcome) ==
  LET a == get_triposg_models(triposg_pipe, rmbg_net, loads, outcome) IN
  /\ running
  /\ FreeSlot(r)
  /\ a.loads <= MaxLoads
  /\ triposg_pipe' = a.pipe
  /\ rmbg_net' = a.rmbg
  /\ loads' = a.loads
  /\ gen_called' = TRUE
  /\ IF generate_gate(a.ret) = "503"
       THEN /\ last' = [NoResp EXCEPT !.op = "generate", !.code = 503,
                                      !.acquired = a.ret]
            /\ UNCHANGED <<pcGen, held, gen_acquired>>
       ELSE /\ pcGen' = [pcGen EXCEPT ![r] = "reading"]
            /\ held' = [held EXCEPT ![r] = a.ret]
            /\ gen_acquired' = TRUE
            /\ UNCHANGED last
  /\ UNCHANGED <<running, fs, rigdir, pcSearch>>
  /\ UNCHANGED <<fsize, owner, cli>>

\* What one /generate request meets past its upload: the faces of the mesh
\* the reconstruction returns (orig), the faces parameter of the request
\* (budget, -1 when the caller leaves it out), how the decimation ends when
\* it is run (decim: 0 when pymeshlab raises, else the faces of the mesh it
\* returns, at most the targetfacenum it was given) and the bytes of the
\* exported file.
GenRuns ==
  {g \in [orig : 1..MaxFaces, budget : -1..MaxFaces, decim : 0..MaxFaces,
          bytes : Bytes] :
     g.decim <= (IF g.budget > 0 THEN g.budget ELSE 0)}
\* A request that leaves faces at its default.
DefaultGen == [orig |-> 1, budget |-> -1, decim |-> 0, bytes |-> 1]

reduce_faces_reports_target(orig, budget, decim) ==
  \* the mutant: the face count reported is the budget, as the log line has it
  IF budget > 0 /\ orig > budget
    THEN IF decim = 0 THEN [faces |-> orig, reduction |-> "failed"]
                      ELSE [faces |-> budget, reduction |-> "done"]
    ELSE [faces |-> IF budget > 0 THEN budget ELSE orig, reduction |-> "skipped"]

\* The optional face reduction and the face count the response reports,
\* len(mesh.faces): mesh is replaced only when the whole inner try went
\* through, and the inner except lets nothing out.
reduce_faces(orig, budget, decim) ==
  IF budget > 0 /\ orig > budget
    THEN IF decim = 0 THEN [faces |-> orig, reduction |-> "failed"]
                      ELSE [faces |-> decim, reduction |-> "done"]
    ELSE [faces |-> orig, reduction |-> "skipped"]

\* POST /generate from await file.read() to its response.  fail: an exception
\* anywhere in the try block before the face reduction; export: how
\* mesh.export ends ("ok", "failed" before it opened the file, "partial"
\* after); g: the mesh, the budget and the decimation.
generate_3d_resume(r, t, fail, export, g) ==
  LET m == reduce_faces(g.orig, g.budget, g.decim)
      f == GenFile(t)
  IN
  /\ running
  /\ pcGen[r] = "reading"
  /\ pcGen' = [pcGen EXCEPT ![r] = "idle"]
  /\ held' = [held EXCEPT ![r] = <<None, None>>]
  /\ IF fail
       THEN /\ last' = [NoResp EXCEPT !.op = "generate", !.code = 500,
                                      !.acquired = held[r], !.read_upload = TRUE]
            /\ UNCHANGED <<fs, fsize, owner>>
       ELSE /\ fs' = [fs EXCEPT ![f] = Exported(@, export)]
            /\ fsize' = [fsize EXCEPT ![f] = Written(@, export, g.bytes)]
            /\ owner' = [owner EXCEPT ![f] = WrittenBy(@, export, GenOwner(t))]
            /\ last' = [NoResp EXCEPT !.op = "generate",
                                      !.code = IF export = "ok" THEN 200 ELSE 500,
                                      !.acquired = held[r], !.read_upload = TRUE,
                                      !.orig = g.orig, !.budget = g.budget,
                                      !.reduction = m.reduction,
                                      !.exported = (export = "ok"),
                                      !.faces = IF export = "ok" THEN m.faces ELSE 0,
                                      !.wrote = IF export = "failed" THEN NoFile ELSE f,
                                      !.writer = IF export = "failed" THEN NoOwner
                                                 ELSE GenOwner(t),
                                      !.prev_owner = IF export = "failed" THEN NoOwner
                                                     ELSE owner[f]]
  /\ UNCHANGED <<running, triposg_pipe, rmbg_net, loads, rigdir, pcSearch,
                 gen_called, gen_acquired, cli>>

\* ---------------------------------------------------------- /search-image

search_reply_nocheck(found) ==
  \* the mutant: no test of the result list, results[0] raises on an empty one
  CASE found = "noimport" -> [next |-> "respond", code |-> 503, message |-> "not installed"]
    [] found = "error"    -> [next |-> "respond", code |-> 500, message |-> "Image search failed"]
    [] found = "empty"    -> [next |-> "respond", code |-> 500, message |-> "Image search failed"]
    [] OTHER              -> [next |-> "download", code |-> 0, message |-> ""]

\* search_image up to its download.  found: what the search ended with
\* ("noimport": duckduckgo_search is not installed, "error": it raised,
\* "empty": no results, "results").
search_reply(found) ==
  CASE found = "noimport" -> [next |-> "respond", code |-> 503, message |-> "not installed"]
    [] found = "error"    -> [next |-> "respond", code |-> 500, message |-> "Image search failed"]
    [] found = "empty"    -> [next |-> "respond", code |-> 200, message |-> "No images found"]
    [] OTHER              -> [next |-> "download", code |-> 0, message |-> ""]

\* POST /search-image up to await client.get.
search_image_begin(found) ==
  LET s == search_reply(found) IN
  /\ running
  /\ pcSearch = "idle"
  /\ IF s.next = "download"
       THEN /\ pcSearch' = "downloading"
            /\ UNCHANGED last
       ELSE /\ last' = [NoResp EXCEPT !.op = "search", !.code = s.code,
                                      !.found = found, !.message = s.message]
            /\ UNCHANGED pcSearch
  /\ UNCHANGED <<running, triposg_pipe, rmbg_net, loads, fs, rigdir, pcGen, held,
                 gen_called, gen_acquired>>
  /\ UNCHANGED <<fsize, owner, cli>>

\* POST /search-image from the download to its response.  ok: the download,
\* the decoding and the save all went through; bytes: the size of the image
\* file saved.
search_image_resume(t, ok, bytes) ==
  LET f == RefFile(t) IN
  /\ running
  /\ pcSearch = "downloading"
  /\ pcSearch' = "idle"
  /\ fs' = IF ok THEN [fs EXCEPT ![f] = "png"] ELSE fs
  /\ fsize' = IF ok THEN [fsize EXCEPT ![f] = bytes] ELSE fsize
  /\ owner' = IF ok THEN [owner EXCEPT ![f] = RefOwner(t)] ELSE owner
  /\ last' = [NoResp EXCEPT !.op = "search", !.code = IF ok THEN 200 ELSE 500,
                            !.found = "results", !.downloads = 1,
                            !.images = IF ok THEN 1 ELSE 0,
                            !.wrote = IF ok THEN f ELSE NoFile,
                            !.writer = IF ok THEN RefOwner(t) ELSE NoOwner,
                            !.prev_owner = IF ok THEN owner[f] ELSE NoOwner]
  /\ UNCHANGED <<running, triposg_pipe, rmbg_net, loads, rigdir, pcGen, held,
                 gen_called, gen_acquired, cli>>

\* ------------------------------------------------------------------ /merge

RECURSIVE merge_scan_skip(_, _)
\* the mutant: a part that does not exist is skipped
merge_scan_skip(parts, i) ==
  IF i > Len(parts) THEN "ok"
  ELSE IF ~Exists(parts[i]) THEN merge_scan_skip(parts, i + 1)
  ELSE IF ~Loadable(parts[i]) THEN "500"
  ELSE merge_scan_skip(parts, i + 1)

RECURSIVE merge_scan(_, _)
\* The loop over req.parts from part i on: "404" at the first part whose path
\* does not exist, "500" at the first whose load raises (nothing in the handler
\* catches it), "ok" when every part was added to the scene.
merge_scan(parts, i) ==
  IF i > Len(parts) THEN "ok"
  ELSE IF ~Exists(parts[i]) THEN "404"
  ELSE IF ~Loadable(parts[i]) THEN "500"
  ELSE merge_scan(parts, i + 1)

\* What the response record keeps of the request: whether a part that exists
\* but does not load stands before every part that does not exist, and how
\* many parts stand before the first part that is missing or does not load.
BadBeforeMissing(parts) ==
  \E j \in 1..Len(parts) :
     /\ Exists(parts[j]) /\ ~Loadable(parts[j])
     /\ \A k \in 1..j : Exists(parts[k])
LoadedBeforeStop(parts) ==
  Cardinality({i \in 1..Len(parts) : \A k \in 1..i : Loadable(parts[k])})

PartLists == UNION {[1..k -> PartPaths] : k \in 0..MaxParts}

merge_reply_stale(parts, before, after) ==
  \* the mutant: the size is read before the export
  [parts_count |-> Len(parts), file_size |-> before]

\* The payload of a merge that went through: len(req.parts), and
\* os.path.getsize(output_path) read once the export has returned.  before,
\* after: the size of the output file before and after the export.
merge_reply(parts, before, after) ==
  [parts_count |-> Len(parts), file_size |-> after]

\* POST /merge, whole: the handler has no suspension point.
merge_parts(parts, name, export, bytes) ==
  LET scan == merge_scan(parts, 1)
      f == MergeFile(name)
      size == Written(fsize[f], export, bytes)
      reply == merge_reply(parts, fsize[f], size)
      done == scan = "ok" /\ export = "ok"
      wrote == scan = "ok" /\ export # "failed"
  IN
  /\ running
  /\ fs' = IF scan = "ok" THEN [fs EXCEPT ![f] = Exported(@, export)] ELSE fs
  /\ fsize' = IF scan = "ok" THEN [fsize EXCEPT ![f] = size] ELSE fsize
  /\ owner' = IF scan = "ok"
                THEN [owner EXCEPT ![f] = WrittenBy(@, export, MergeOwner(name))]
                ELSE owner
  /\ last' = [NoResp EXCEPT !.op = "merge",
                !.code = CASE scan = "404" -> 404
                           [] scan = "500" -> 500
                           [] export = "ok" -> 200
                           [] OTHER -> 500,
                !.missing = (\E i \in 1..Len(parts) : ~Exists(parts[i])),
                !.bad_first = BadBeforeMissing(parts),
                !.parts_loaded = LoadedBeforeStop(parts),
                !.name = IF done THEN name ELSE <<"", 0>>,
                !.requested = IF done THEN Len(parts) ELSE 0,
                !.parts_count = IF done THEN reply.parts_count ELSE 0,
                !.file_size = IF done THEN reply.file_size ELSE 0,
                !.written = IF done THEN bytes ELSE 0,
                !.wrote = IF wrote THEN f ELSE NoFile,
                !.writer = IF wrote THEN MergeOwner(name) ELSE NoOwner,
                !.prev_owner = IF wrote THEN owner[f] ELSE NoOwner]
  /\ UNCHANGED <<running, triposg_pipe, rmbg_net, loads, rigdir, pcSearch, pcGen,
                 held, gen_called, gen_acquired, cli>>

\* -------------------------------------------------------------------- /rig

\* The try block of rig_bot: the work directory, the two mandatory steps, the
\* conversion step and the result.  dir: the work directory as found; env: how
\* the three subprocesses end.  steps: the subprocesses started, in order.
rig_pipeline(dir, env) ==
  LET skel == env[1]
      skin == IF Len(env) >= 2 THEN env[2] ELSE "unasked"
      conv == IF Len(env) >= 3 THEN env[3] ELSE "unasked"
      made == IF dir = "none" THEN "dir" ELSE dir
  IN
  IF skel # "ok"
    THEN [code |-> IF skel = "timeout" THEN 504 ELSE 500, steps |-> <<"skel">>,
          dir |-> made, skin_json |-> "none"]
  ELSE IF skin # "ok"
    THEN [code |-> IF skin = "timeout" THEN 504 ELSE 500,
          steps |-> <<"skel", "skin">>, dir |-> made, skin_json |-> "none"]
  ELSE IF conv = "timeout"
    THEN [code |-> 504, steps |-> <<"skel", "skin", "conv">>, dir |-> made,
          skin_json |-> "none"]
  ELSE
    LET after == IF conv = "ok" THEN "skin" ELSE made IN
    [code |-> 200,
     steps |-> IF conv = "noscript" THEN <<"skel", "skin">>
               ELSE <<"skel", "skin", "conv">>,
     dir |-> after,
     skin_json |-> IF after = "skin" THEN "path" ELSE "null"]

\* The call unload_triposr() of rig_bot: the name is looked up in the module's
\* globals when the call is reached, and a name that is not bound raises
\* NameError.
unload_triposr_raises == "unload_triposr" \notin ModuleGlobals

\* POST /rig, whole: the handler has no suspension point.  The call before the
\* try block raises outside every handler of the function, so the framework
\* answers 500 and nothing of the try block runs.
rig_bot(path, name, env) ==
  /\ running
  /\ IF ~Exists(path)
       THEN /\ last' = [NoResp EXCEPT !.op = "rig", !.code = 404, !.missing = TRUE,
                                      !.env = env]
            /\ UNCHANGED <<triposg_pipe, rmbg_net, rigdir>>
       ELSE IF unload_triposr_raises
         THEN /\ last' = [NoResp EXCEPT !.op = "rig", !.code = 500, !.env = env,
                             !.before = <<triposg_pipe, rmbg_net>>,
                             !.after = <<triposg_pipe, rmbg_net>>]
              /\ UNCHANGED <<triposg_pipe, rmbg_net, rigdir>>
         ELSE LET p == rig_pipeline(rigdir[name], env) IN
              /\ last' = [NoResp EXCEPT !.op = "rig", !.code = p.code, !.env = env,
                             !.before = <<triposg_pipe, rmbg_net>>,
                             !.after = <<triposg_pipe, rmbg_net>>,
                             !.steps = p.steps, !.skin_json = p.skin_json]
              /\ rigdir' = [rigdir EXCEPT ![name] = p.dir]
              /\ UNCHANGED <<triposg_pipe, rmbg_net>>
  /\ UNCHANGED <<running, loads, fs, pcSearch, pcGen, held, gen_called, gen_acquired>>
  /\ UNCHANGED <<fsize, owner, cli>>

\* ------------------------------------------------------------- lifespan

\* lifespan after its yield: the service stops (every request has been
\* answered) and releases the models.
shutdown ==
  LET u == unload_triposg(triposg_pipe, rmbg_net) IN
  /\ running
  /\ \A r \in Reqs : pcGen[r] = "idle"
  /\ pcSearch = "idle"
  /\ running' = FALSE
  /\ triposg_pipe' = u.pipe
  /\ rmbg_net' = u.rmbg
  /\ last' = [NoResp EXCEPT !.op = "shutdown",
                            !.before = <<triposg_pipe, rmbg_net>>,
                            !.after = <<u.pipe, u.rmbg>>,
                            !.emptied = u.emptied]
  /\ UNCHANGED <<loads, fs, rigdir, pcSearch, pcGen, held, gen_called, gen_acquired>>
  /\ UNCHANGED <<fsize, owner, cli>>

\* A new process: the module is imported again, its globals are None, and
\* the output directory is as the last process left it.
startup ==
  /\ ~running
  /\ running' = TRUE
  /\ triposg_pipe' = None
  /\ rmbg_net' = None
  /\ loads' = 0
  /\ gen_called' = FALSE
  /\ gen_acquired' = FALSE
  /\ last' = NoResp
  /\ UNCHANGED <<fs, rigdir, pcSearch, pcGen, held>>
  /\ UNCHANGED <<fsize, owner, cli>>

\* -------------------------------------------------- the script, one run

\* python generate_3d.py with a command line: the script shares nothing with
\* the service.
main(args, cuda, gen) ==
  /\ cli' = main_exit(args, cuda, gen)
  /\ UNCHANGED <<running, triposg_pipe, rmbg_net, loads, fs, rigdir, pcSearch,
                 pcGen, held, gen_called, gen_acquired, last, fsize, owner>>

\* ------------------------------------------------------------------ Next

SearchOutcomes == {"noimport", "error", "empty", "results"}
\* The paths the model-handle and rigging specifications draw requests from:
\* one that always exists, one that never does, and the generated meshes.
MeshPaths == {RootDir, NoSuchPath} \cup {GenFile(t) : t \in Tokens}
MergeLists == UNION {[1..k -> MeshPaths] : k \in 0..MaxParts}

Next ==
  \/ status
  \/ \E r \in Reqs, o \in LoadOutcomes : generate_3d_begin(r, o)
  \/ \E r \in Reqs, t \in Tokens, fail \in BOOLEAN, e \in ExportOutcomes,
        g \in GenRuns : generate_3d_resume(r, t, fail, e, g)
  \/ \E found \in SearchOutcomes : search_image_begin(found)
  \/ \E t \in Tokens, ok \in BOOLEAN, b \in Bytes : search_image_resume(t, ok, b)
  \/ \E parts \in PartLists, n \in OutputNames, e \in ExportOutcomes,
        b \in Bytes : merge_parts(parts, n, e, b)
  \/ \E p \in PartPaths, n \in OutputNames, env \in RigEnvs : rig_bot(p, n, env)
  \/ shutdown
  \/ startup

\* The whole service.  The specifications below keep the handlers one group
\* of properties is about, and the handlers that produce what those read.
Spec == Init /\ [][Next]_vars

\* The model handles and the rigging handler: every handler that reads or
\* writes the two globals, with /generate as the only writer of files.
NextModels ==
  \/ status
  \/ \E r \in Reqs, o \in LoadOutcomes : generate_3d_begin(r, o)
  \/ \E r \in Reqs, t \in Tokens, fail \in BOOLEAN, e \in ExportOutcomes :
        generate_3d_resume(r, t, fail, e, DefaultGen)
  \/ \E p \in MeshPaths, n \in OutputNames, env \in RigEnvs : rig_bot(p, n, env)
  \/ shutdown
  \/ startup

SpecModels == Init /\ [][NextModels]_vars

\* The merge handler, with /generate (one request at a time, its models
\* loading at once) as the source of the mesh files it reads.
NextMerge ==
  \/ generate_3d_begin(1, "ok")
  \/ \E t \in Tokens, fail \in BOOLEAN, e \in ExportOutcomes :
        generate_3d_resume(1, t, fail, e, DefaultGen)
  \/ \E parts \in MergeLists, e \in ExportOutcomes :
        merge_parts(parts, DefaultName, e, DefaultGen.bytes)

SpecMerge == Init /\ [][NextMerge]_vars

\* The merge handler and the sizes of what it writes: parts that are a
\* directory (it exists and does not load) or the first generated mesh.
SizedPaths == {RootDir, GenFile(1)}
SizedLists == UNION {[1..k -> SizedPaths] : k \in 0..MaxParts}
NextMergeSize ==
  \/ generate_3d_begin(1, "ok")
  \/ \E fail \in BOOLEAN, e \in ExportOutcomes, b \in Bytes :
        generate_3d_resume(1, 1, fail, e, [DefaultGen EXCEPT !.bytes = b])
  \/ \E parts \in SizedLists, n \in OutputNames, e \in ExportOutcomes,
        b \in Bytes : merge_parts(parts, n, e, b)

SpecMergeSize == Init /\ [][NextMergeSize]_vars

\* The /generate handler over the meshes, the budgets and the decimations,
\* one request at a time, its file of one size and one name.
FaceRuns == {g \in GenRuns : g.bytes = DefaultGen.bytes}
NextFaces ==
  \/ generate_3d_begin(1, "ok")
  \/ \E fail \in BOOLEAN, e \in ExportOutcomes, g \in FaceRuns :
        generate_3d_resume(1, 1, fail, e, g)

SpecFaces == Init /\ [][NextFaces]_vars

\* The script alone, run after run.
NextCli ==
  \E args \in CliArgs, cuda \in BOOLEAN, gen \in CliOutcomes : main(args, cuda, gen)

SpecCli == Init /\ [][NextCli]_vars

\* Every handler that writes to OUTPUT_DIR, the /generate requests in flight
\* together; a merge takes no part or one generated mesh, and an export
\* writes its whole file or none of it.
FileLists == {<<>>} \cup {<<GenFile(t)>> : t \in Tokens}
NextFiles ==
  \/ \E r \in Reqs : generate_3d_begin(r, "ok")
  \/ \E r \in Reqs, t \in Tokens, e \in {"ok", "failed"} :
        generate_3d_resume(r, t, FALSE, e, DefaultGen)
  \/ \E found \in SearchOutcomes : search_image_begin(found)
  \/ \E t \in Tokens, ok \in BOOLEAN : search_image_resume(t, ok, DefaultGen.bytes)
  \/ \E parts \in FileLists, n \in OutputNames, e \in {"ok", "failed"} :
        merge_parts(parts, n, e, DefaultGen.bytes)

SpecFiles == Init /\ [][NextFiles]_vars

\* \* ================================================================ claims

RigOnExistingPath == last.op = "rig" /\ ~last.missing
BothMandatoryOk == Len(last.env) = 3

\* C1: every /rig request on an existing mesh path releases the resident
\* models before it starts the skeleton subprocess: when the handler is done,
\* neither handle is resident.
C1_RigReleasesModels ==
  RigOnExistingPath => last.after = <<None, None>>

\* C2: a /rig request on an existing mesh path whose two mandatory steps both
\* end with status 0 returns a success result.
C2_RigSucceeds ==
  (RigOnExistingPath /\ BothMandatoryOk) => last.code = 200

\* C3: a /rig request whose mandatory steps succeed and whose conversion step
\* fails (nonzero exit, timeout, or no script) returns success with a null
\* skin-data field.
C3_ConversionFailureTolerated ==
  (RigOnExistingPath /\ BothMandatoryOk /\ last.env[3] # "ok")
    => (last.code = 200 /\ last.skin_json = "null")

\* C4: a /rig request one of whose mandatory steps times out or exits nonzero
\* fails, with 504 for a timeout and 500 for a nonzero exit, and starts no step
\* after the failing one.
C4_MandatoryFailureIsHard ==
  (RigOnExistingPath /\ ~BothMandatoryOk)
    => /\ last.code = (IF last.env[Len(last.env)] = "timeout" THEN 504 ELSE 500)
       /\ Len(last.steps) <= Len(last.env)

\* C5: while the pipeline is resident and no release intervenes, no step loads
\* or downloads again or replaces the pair, and a /generate request that
\* acquires gets the cached pair.
C5_AcquireCached ==
  [][(triposg_pipe # None /\ triposg_pipe' # None)
       => /\ loads' = loads
          /\ triposg_pipe' = triposg_pipe
          /\ rmbg_net' = rmbg_net
          /\ \A r \in Reqs :
               (pcGen[r] = "idle" /\ pcGen'[r] = "reading")
                 => held'[r] = <<triposg_pipe, rmbg_net>>]_vars

\* C5 witness: two requests in flight hold the same pair after a single load.
C5_Witness ==
  /\ pcGen[1] = "reading" /\ pcGen[2] = "reading"
  /\ held[1] = held[2] /\ held[1] = <<triposg_pipe, rmbg_net>>
  /\ triposg_pipe # None /\ loads = 1

\* C6: in every reachable state the pipeline and the segmentation network are
\* both resident or both absent.
C6_BothOrNeither == (triposg_pipe = None) <=> (rmbg_net = None)

\* C7: a failing acquire returns (None, None); the /generate request that made
\* it answers 503 without reading the upload, and the step that answers 503
\* writes no file and leaves no request in flight that was not.
C7_AcquireFailureIs503 ==
  /\ [](/\ (last.op = "generate" /\ last.acquired[1] = None)
             => (last.code = 503 /\ last.acquired = <<None, None>>
                 /\ ~last.read_upload)
        /\ (last.op = "generate" /\ last.code = 503) => last.acquired[1] = None
        /\ \A r \in Reqs : pcGen[r] = "reading" => held[r][1] # None)
  /\ [][(last' # last /\ last'.op = "generate" /\ last'.code = 503)
          => (fs' = fs /\ pcGen' = pcGen /\ held' = held)]_vars

\* C7 witness: a /generate request was answered 503 after the segmentation
\* network had loaded and the pipeline had not.
C7_Witness ==
  last.op = "generate" /\ last.code = 503 /\ rmbg_net # None /\ triposg_pipe = None

\* C8: after release neither handle is resident, whatever was resident before
\* (the service's shutdown included); release with nothing loaded changes
\* nothing and does not empty the accelerator cache; release after release is
\* that no-op.
C8_ReleaseIdempotent ==
  LET u == unload_triposg(triposg_pipe, rmbg_net)
      uu == unload_triposg(u.pipe, u.rmbg)
  IN /\ u.pipe = None /\ u.rmbg = None
     /\ (triposg_pipe = None /\ rmbg_net = None) => ~u.emptied
     /\ uu = [pipe |-> None, rmbg |-> None, emptied |-> FALSE]
     /\ last.op = "shutdown"
          => /\ last.after = <<None, None>>
             /\ triposg_pipe = None /\ rmbg_net = None
             /\ last.before = <<None, None>> => ~last.emptied

\* C8 witness: the service shut down with only the segmentation network
\* resident, and release emptied the cache.
C8_Witness ==
  last.op = "shutdown" /\ last.before[1] = None /\ last.before[2] # None
    /\ last.emptied

\* C9 as stated: /status reports the models loaded exactly when a /generate
\* call was made before it.
C9_StatusAfterGenerate ==
  last.op = "status" => (last.loaded <=> last.gen_before)

\* C9 amended: /status before any /generate call reports not loaded; /status
\* reports loaded exactly when a /generate call before it got the models from
\* acquire (was not answered 503).
C9_StatusAfterAcquire ==
  last.op = "status"
    => /\ ~last.gen_before => ~last.loaded
       /\ last.loaded <=> last.acquired_before

\* C9 witness: /status reported loaded after a /generate call acquired.
C9_Witness == last.op = "status" /\ last.loaded /\ last.acquired_before

MergeWithMissingPart ==
  last' # last /\ last'.op = "merge" /\ last'.missing

\* C10 as stated: a /merge request naming a nonexistent path anywhere in its
\* list is answered 404 and leaves the output directory unchanged.
C10_MissingPartIs404 ==
  [][MergeWithMissingPart => (last'.code = 404 /\ fs' = fs)]_vars

\* C10 amended: a /merge request naming a nonexistent path leaves the output
\* directory unchanged and fails: with 404 when every part before the first
\* nonexistent one is loaded and added, with 500 when the handling of one of
\* them raises (it exists and does not load).
C10_MissingPartFails ==
  [][MergeWithMissingPart
       => /\ fs' = fs
          /\ last'.code = (IF last'.bad_first THEN 500 ELSE 404)]_vars

\* C10 witness: a 404 for a missing part that came after a part already loaded.
C10_Witness ==
  last.op = "merge" /\ last.missing /\ last.code = 404 /\ last.parts_loaded >= 1

\* The output file of the merge answered last, when it went through.
MergeAnswered == last.op = "merge" /\ ~last.missing
MergeDone == last.op = "merge" /\ last.code = 200
MergeOutput ==
  /\ fs[MergeFile(last.name)] = "glb"
  /\ last.file_size = fsize[MergeFile(last.name)]
  /\ last.file_size = last.written
  /\ last.parts_count = last.requested

\* C11 as stated: after every /merge request all of whose parts exist, the
\* file named after the output name exists, the size reported is the number
\* of bytes written to it, and the part count reported is the number of parts
\* of the request.
C11_MergeWritesOutput ==
  MergeAnswered => (MergeDone /\ MergeOutput)

\* C11 as the code has it: a /merge request all of whose parts exist answers
\* 200 or 500; when it answers 200 the output file exists, the size reported
\* is the number of bytes the export wrote, and the part count reported is the
\* number of parts of the request.  It answers 500, with no payload (and, when
\* the export did not start, no output file from it), when a part that exists
\* does not load or the export raises.
C11_MergeDoneWritesOutput ==
  /\ MergeAnswered => last.code \in {200, 500}
  /\ MergeDone => MergeOutput
  /\ (MergeAnswered /\ last.bad_first) => (last.code = 500 /\ last.wrote = NoFile)

\* A merge of two parts went through and wrote two bytes over the file an
\* earlier request left.
C11_Witness ==
  /\ MergeDone
  /\ last.requested = 2
  /\ last.prev_owner # NoOwner
  /\ last.file_size = 2

\* The request answered last wrote to a file an earlier request had written.
WroteOver == last.wrote # NoFile /\ last.prev_owner # NoOwner

\* C12 as stated: the paths the requests write are distinct, no request
\* writes to a file that another request wrote.
C12_WritesNeverCollide == ~WroteOver

\* C12 as the code has it: a request writes to the file of an earlier request
\* only when both made the name from the same value, the same token or the
\* same output_name; two requests of different handlers do so only when one
\* of them is a /merge, whose output_name is the caller's (a /merge named
\* after a part id writes over the part).  So /generate and /search-image
\* requests that draw different tokens write distinct paths, and a /generate
\* request and a /search-image request never write the same one.
C12_CollideOnSameName ==
  WroteOver =>
    /\ <<last.writer[2], last.writer[3]>> = <<last.prev_owner[2], last.prev_owner[3]>>
    /\ last.writer[1] # last.prev_owner[1]
         => "merge" \in {last.writer[1], last.prev_owner[1]}

\* A /generate request wrote a new file next to the files of another
\* /generate request, of a /search-image request and of a /merge request.
C12_Witness ==
  /\ last.op = "generate" /\ last.wrote = GenFile(2) /\ last.prev_owner = NoOwner
  /\ owner[GenFile(1)] = GenOwner(1)
  /\ owner[RefFile(2)] = RefOwner(2)
  /\ owner[MergeFile(DefaultName)] = MergeOwner(DefaultName)

C14_EmptySearch ==
  /\ [](last.found = "empty" =>
          /\ last.op = "search" /\ last.code = 200
          /\ last.images = 0 /\ last.message = "No images found"
          /\ last.downloads = 0 /\ last.wrote = NoFile)
  /\ [][(last'.found = "empty" /\ last' # last) =>
          /\ fs' = fs /\ fsize' = fsize /\ owner' = owner
          /\ pcSearch = "idle" /\ pcSearch' = "idle"]_vars

\* An empty search was answered while the output directory held a file.
C14_Witness ==
  /\ last.op = "search" /\ last.found = "empty"
  /\ \E t \in Tokens : fs[RefFile(t)] = "png"

\* The script ran with neither an input image nor test mode.
NoImageGiven == cli.ran /\ cli.args.input = "none" /\ ~cli.args.test

\* C15 as stated: whenever neither an input image nor test mode is given, the
\* script exits with a nonzero status and generates no mesh, whatever the
\* other flags are.
C15_NoImageExitsNonzero ==
  NoImageGiven => (cli.exit # 0 /\ ~cli.generated /\ ~cli.mesh)

\* C15 as the code has it: with neither an input image nor test mode the
\* script generates no mesh; it exits with status 1 when --gpu-check is not
\* given, and with status 0, after the GPU report, when it is; the output path
\* and the resolution change nothing.
C15_NoImageExit ==
  NoImageGiven =>
    /\ ~cli.generated /\ ~cli.mesh
    /\ cli.exit = IF cli.args.gpu_check THEN 0 ELSE 1

\* A run with an output path and a resolution of the caller's and nothing
\* else ended with status 1.
C15_Witness ==
  /\ NoImageGiven /\ ~cli.args.gpu_check
  /\ cli.args.output = "other.glb" /\ cli.args.resolution = 512
  /\ cli.exit = 1

\* A /generate request is suspended at its await, between acquire and the
\* inference.
InFlight(r) == pcGen[r] = "reading"

====
